---- MODULE Spec2Model ----
(***************************************************************************)
(* Reminder scheduling and notification engine of task-reminder.           *)
(*                                                                         *)
(* Time is counted in seconds.  Timestamps are persisted as TEXT, so a     *)
(* stored timestamp is modelled by the fields of its textual form,         *)
(* <<date, separator, second of day>>, and SQL comparisons on such columns *)
(* are the lexicographic comparison SQLite performs on TEXT.               *)
(***************************************************************************)
EXTENDS Integers, Sequences, FiniteSets, TLC

\* ------------------------------------------------------------------ bounds
NumReminders == 2
MaxThreads == 2
MaxTicks == 5
MaxFgOps == 1
\* the step-wise loop counts the dispatch attempts of a reminder up to
\* this number
MaxFires == 2
NumTasks == 2

\* ------------------------------------------------------- program constants
PollSecs == 30
SvcPollSecs == 60
CooldownMinutes == 1
DefaultSnoozeMinutes == 15
CharT == 84
CharSpace == 32
\* the largest value of the signed integers, which are given 32 bits here
I64Max == 2147483647
\* TimeDelta holds milliseconds in such an integer; in seconds
DurationMax == I64Max \div 1000
\* the latest DateTime, in seconds
DateTimeMax == I64Max

VARIABLES
    clock,         \* Utc::now(), in seconds
    rows,          \* the reminders table, by id
    is_running,    \* NotificationService.is_running
    caller_pc,     \* position of each caller of start()
    pc,            \* position of each poll-loop thread
    batch,         \* due_reminders still to be processed, by thread
    wake_at,       \* end of the current thread::sleep, by thread
    db_lock,       \* holder of the Mutex<Database>, 0 when free
    store_faulty,  \* whether store calls may return Err
    sink_fails,    \* whether the notification sink returns Err
    fires,         \* history: number of dispatch attempts, by id
    last_fire,     \* history: the last dispatch attempt and its event, by id
    fg_ops,        \* number of foreground commands served
    must_exit,     \* history: stop() was called while the thread was alive
    epoch_starts,  \* history: start() calls that set the flag since stop()
    refused,       \* history: some start() call found the flag set
    result,        \* history: outcome of the last foreground command
    tasks,         \* the tasks table, by id
    run_lock       \* holder of the Mutex<bool> of is_running, 0 when free

vars == <<clock, rows, is_running, caller_pc, pc, batch, wake_at, db_lock,
          store_faulty, sink_fails, fires, last_fire, fg_ops, must_exit,
          epoch_starts, refused, result, tasks, run_lock>>

Ids == 1..NumReminders
TaskIds == 1..NumTasks
Threads == 1..MaxThreads
Callers == 1..2

None == [some |-> FALSE]
Some(x) == [some |-> TRUE, v |-> x]

\* ---------------------------------------------------------------- chrono
Seconds(v) == v
Minutes(v) == v * 60
Hours(v) == v * 3600
Days(v) == v * 86400
Weeks(v) == v * 604800

StartTime == Days(1) - Minutes(1)
MaxTime == StartTime + MaxTicks * PollSecs

\* DateTime<Utc>::to_rfc3339: "YYYY-MM-DDTHH:MM:SS+00:00"
Rfc3339(t) == <<t \div Days(1), CharT, t % Days(1)>>

\* SQLite datetime(): "YYYY-MM-DD HH:MM:SS"
SqliteDatetime(t) == <<t \div Days(1), CharSpace, t % Days(1)>>

\* DateTime::parse_from_rfc3339(..).ok(): the 'T' separator is required
ParseRfc3339(s) ==
    IF s[2] = CharT THEN Some(s[1] * Days(1) + s[3]) ELSE None

\* BINARY collation on TEXT values of equal length
TextLess(a, b) ==
    \E i \in 1..Len(a) :
        /\ a[i] < b[i]
        /\ \A j \in 1..(i - 1) : a[j] = b[j]

TextLeq(a, b) == a = b \/ TextLess(a, b)

\* ------------------------------------------------------- RepeatInterval
\* A descriptor is kept as the list of its '_'-separated tokens.
DescNone == <<"none">>
Descriptors ==
    { DescNone,
      <<"every", "1", "minutes">>,
      <<"every", "1", "hour">>,
      <<"after", "1", "hour">>,
      <<"weekly">> }

is_repeating(d) == d # DescNone

\* str::parse::<i64>
ParseI64(tok) ==
    CASE tok = "0" -> Some(0)
      [] tok = "1" -> Some(1)
      [] tok = "2" -> Some(2)
      [] tok = "10" -> Some(10)
      [] tok = "30" -> Some(30)
      [] tok = "9223372036854775807" -> Some(I64Max)
      [] tok = "-1" -> Some(0 - 1)
      [] OTHER -> None

parse(d) ==
    IF d = DescNone THEN None
    ELSE IF Len(d) >= 3 /\ ParseI64(d[2]).some
         THEN Some([kind |-> d[1], value |-> ParseI64(d[2]).v,
                    unit |-> SubSeq(d, 3, Len(d))])
         ELSE None

\* the match on unit.as_str() in should_repeat_now / next_trigger_time
DurationFor(unit, value) ==
    IF Len(unit) # 1 THEN None
    ELSE CASE unit[1] \in {"seconds", "second"} -> Some(Seconds(value))
           [] unit[1] \in {"minutes", "minute"} -> Some(Minutes(value))
           [] unit[1] \in {"hours", "hour"} -> Some(Hours(value))
           [] unit[1] \in {"days", "day"} -> Some(Days(value))
           [] unit[1] \in {"weeks", "week"} -> Some(Weeks(value))
           [] unit[1] \in {"months", "month"} -> Some(Days(value * 30))
           [] unit[1] \in {"years", "year"} -> Some(Days(value * 365))
           [] OTHER -> None

\* ------------------------------------------------------------- Reminder
\* should_repeat_now treating "after" like "every"
should_repeat_now_after(r, last_triggered, now) ==
    LET p == parse(r.repeat_interval) IN
    IF p.some
    THEN LET d == DurationFor(p.v.unit, p.v.value) IN
         IF d.some THEN (now - last_triggered) >= d.v ELSE FALSE
    ELSE FALSE

\* should_repeat_now without the elapsed-time test
should_repeat_now_always(r, last_triggered, now) ==
    LET p == parse(r.repeat_interval) IN
    IF p.some
    THEN IF p.v.kind = "after" THEN FALSE
         ELSE DurationFor(p.v.unit, p.v.value).some
    ELSE FALSE

\* should_repeat_now taking a descriptor that does not parse as elapsed
should_repeat_now_unparsed(r, last_triggered, now) ==
    LET p == parse(r.repeat_interval) IN
    IF p.some
    THEN IF p.v.kind = "after" THEN FALSE
         ELSE LET d == DurationFor(p.v.unit, p.v.value) IN
              IF d.some THEN (now - last_triggered) >= d.v ELSE FALSE
    ELSE TRUE

should_repeat_now(r, last_triggered, now) ==
    LET p == parse(r.repeat_interval) IN
    IF p.some
    THEN IF p.v.kind = "after" THEN FALSE
         ELSE LET d == DurationFor(p.v.unit, p.v.value) IN
              IF d.some THEN (now - last_triggered) >= d.v ELSE FALSE
    ELSE FALSE

\* is_due without the never-fired test of a non-repeating reminder
is_due_refire(r, now) ==
    IF ~r.is_active THEN FALSE
    ELSE IF r.remind_at > now THEN FALSE
    ELSE IF ~is_repeating(r.repeat_interval) THEN TRUE
    ELSE IF r.last_triggered_at.some
         THEN should_repeat_now(r, r.last_triggered_at.v, now)
    ELSE TRUE

is_due(r, now) ==
    IF ~r.is_active THEN FALSE
    ELSE IF r.remind_at > now THEN FALSE
    ELSE IF ~is_repeating(r.repeat_interval)
         THEN ~r.last_triggered_at.some
    ELSE IF r.last_triggered_at.some
         THEN should_repeat_now(r, r.last_triggered_at.v, now)
    ELSE TRUE

\* next_trigger_time taking the value of the descriptor as seconds
next_trigger_time_unitless(r) ==
    IF ~r.is_active \/ ~is_repeating(r.repeat_interval) THEN None
    ELSE LET base_time == IF r.last_triggered_at.some
                          THEN r.last_triggered_at.v ELSE r.remind_at
             p == parse(r.repeat_interval) IN
         IF p.some
         THEN IF p.v.kind = "after" THEN None
              ELSE Some(base_time + Seconds(p.v.value))
         ELSE None

\* next_trigger_time counting from remind_at after a trigger too
next_trigger_time_from_remind_at(r) ==
    IF ~r.is_active \/ ~is_repeating(r.repeat_interval) THEN None
    ELSE LET p == parse(r.repeat_interval) IN
         IF p.some
         THEN IF p.v.kind = "after" THEN None
              ELSE LET d == DurationFor(p.v.unit, p.v.value) IN
                   IF d.some THEN Some(r.remind_at + d.v) ELSE None
         ELSE None

next_trigger_time(r) ==
    IF ~r.is_active \/ ~is_repeating(r.repeat_interval) THEN None
    ELSE LET base_time == IF r.last_triggered_at.some
                          THEN r.last_triggered_at.v ELSE r.remind_at
             p == parse(r.repeat_interval) IN
         IF p.some
         THEN IF p.v.kind = "after" THEN None
              ELSE LET d == DurationFor(p.v.unit, p.v.value) IN
                   IF d.some THEN Some(base_time + d.v) ELSE None
         ELSE None

\* ------------------------------------- evaluation with bounded integers
Panic == [panic |-> TRUE]
Value(x) == [panic |-> FALSE, v |-> x]

\* a + b of two signed integers, wrapped around
WrapAdd(a, b) ==
    IF a > 0 /\ b > I64Max - a THEN (a - I64Max) + (b - I64Max) - 2
    ELSE IF a < 0 /\ b < (0 - I64Max) - 1 - a
         THEN (a + I64Max) + (b + I64Max) + 2
    ELSE a + b

RECURSIVE WrapMul(_, _)
WrapMul(value, k) ==
    IF k = 0 THEN 0 ELSE WrapAdd(WrapMul(value, k - 1), value)

\* value * k: without overflow the product; with overflow a panic where
\* overflow checks are compiled in and the wrapped product where not
Mul(value, k) ==
    IF value <= I64Max \div k /\ value >= 0 - (I64Max \div k)
    THEN {Value(value * k)}
    ELSE {Panic, Value(WrapMul(value, k))}

\* Duration::seconds, minutes, hours, days, weeks: panic out of bounds
DurationOf(value, per) ==
    IF value <= DurationMax \div per /\ value >= 0 - (DurationMax \div per)
    THEN Value(Some(value * per))
    ELSE Panic

\* the match on unit.as_str(), with the outcomes of its arithmetic
DurationOutcomes(unit, value) ==
    IF Len(unit) # 1 THEN {Value(None)}
    ELSE CASE unit[1] \in {"seconds", "second"} -> {DurationOf(value, 1)}
           [] unit[1] \in {"minutes", "minute"} -> {DurationOf(value, 60)}
           [] unit[1] \in {"hours", "hour"} -> {DurationOf(value, 3600)}
           [] unit[1] \in {"days", "day"} -> {DurationOf(value, 86400)}
           [] unit[1] \in {"weeks", "week"} -> {DurationOf(value, 604800)}
           [] unit[1] \in {"months", "month"} ->
                 { IF m.panic THEN Panic ELSE DurationOf(m.v, 86400) :
                     m \in Mul(value, 30) }
           [] unit[1] \in {"years", "year"} ->
                 { IF m.panic THEN Panic ELSE DurationOf(m.v, 86400) :
                     m \in Mul(value, 365) }
           [] OTHER -> {Value(None)}

\* the outcomes of should_repeat_now
should_repeat_now_outcomes(r, last_triggered, now) ==
    LET p == parse(r.repeat_interval) IN
    IF p.some
    THEN IF p.v.kind = "after" THEN {Value(FALSE)}
         ELSE { IF d.panic THEN Panic
                ELSE IF d.v.some
                     THEN Value((now - last_triggered) >= d.v.v)
                     ELSE Value(FALSE) :
                  d \in DurationOutcomes(p.v.unit, p.v.value) }
    ELSE {Value(FALSE)}

\* the outcomes of is_due
is_due_outcomes(r, now) ==
    IF ~r.is_active THEN {Value(FALSE)}
    ELSE IF r.remind_at > now THEN {Value(FALSE)}
    ELSE IF ~is_repeating(r.repeat_interval)
         THEN {Value(~r.last_triggered_at.some)}
    ELSE IF r.last_triggered_at.some
         THEN should_repeat_now_outcomes(r, r.last_triggered_at.v, now)
    ELSE {Value(TRUE)}

\* base_time + duration: panics past the latest DateTime
AddDuration(base_time, d) ==
    IF d > DateTimeMax - base_time THEN Panic
    ELSE Value(Some(base_time + d))

\* the outcomes of next_trigger_time
next_trigger_time_outcomes(r) ==
    IF ~r.is_active \/ ~is_repeating(r.repeat_interval) THEN {Value(None)}
    ELSE LET base_time == IF r.last_triggered_at.some
                          THEN r.last_triggered_at.v ELSE r.remind_at
             p == parse(r.repeat_interval) IN
         IF p.some
         THEN IF p.v.kind = "after" THEN {Value(None)}
              ELSE { IF d.panic THEN Panic
                     ELSE IF d.v.some THEN AddDuration(base_time, d.v.v)
                          ELSE Value(None) :
                       d \in DurationOutcomes(p.v.unit, p.v.value) }
         ELSE {Value(None)}

\* --------------------------------------------------- ReminderRepository
Null == <<>>

\* find_by_id finds no row under the id
NoRow == [found |-> FALSE]

map_row_to_reminder(id, row, now) ==
    [id |-> id,
     task_id |-> row.task_id,
     title |-> row.title,
     description |-> IF row.description = Null THEN None
                     ELSE Some(row.description),
     remind_at |-> IF ParseRfc3339(row.remind_at).some
                   THEN ParseRfc3339(row.remind_at).v ELSE now,
     repeat_interval |-> row.repeat_interval,
     is_active |-> row.is_active # 0,
     last_triggered_at |-> IF row.last_triggered_at = Null THEN None
                           ELSE ParseRfc3339(row.last_triggered_at),
     created_at |-> IF ParseRfc3339(row.created_at).some
                    THEN ParseRfc3339(row.created_at).v ELSE now,
     updated_at |-> IF ParseRfc3339(row.updated_at).some
                    THEN ParseRfc3339(row.updated_at).v ELSE now]

\* the WHERE clause without the cool-down
DueWhere_nocooldown(row, now) ==
    /\ row.is_active = 1
    /\ TextLeq(row.remind_at, Rfc3339(now))

\* the WHERE clause without rows that never fired
DueWhere_fired(row, now) ==
    /\ row.is_active = 1
    /\ TextLeq(row.remind_at, Rfc3339(now))
    /\ row.last_triggered_at # Null
    /\ TextLess(row.last_triggered_at,
                SqliteDatetime(now - Minutes(CooldownMinutes)))

\* the WHERE clause of find_due_reminders
DueWhere(row, now) ==
    /\ row.is_active = 1
    /\ TextLeq(row.remind_at, Rfc3339(now))
    /\ \/ row.last_triggered_at = Null
       \/ TextLess(row.last_triggered_at,
                   SqliteDatetime(now - Minutes(CooldownMinutes)))

\* ids selected by find_due_reminders on table tbl at time now
DueIds(tbl, now) ==
    { id \in Ids : /\ DueWhere(tbl[id], now)
                   /\ is_due(map_row_to_reminder(id, tbl[id], now), now) }

\* the rows of S in any order, as without the ORDER BY
Ordered_unsorted(tbl, S) ==
    { q \in [1..Cardinality(S) -> S] :
        \A i, j \in 1..Cardinality(S) : i # j => q[i] # q[j] }

\* the orders ORDER BY remind_at ASC can return the rows of S in
Ordered(tbl, S) ==
    { q \in [1..Cardinality(S) -> S] :
        /\ \A i, j \in 1..Cardinality(S) : i # j => q[i] # q[j]
        /\ \A i, j \in 1..Cardinality(S) :
              i < j => TextLeq(tbl[q[i]].remind_at, tbl[q[j]].remind_at) }

find_due_reminders(tbl, now) ==
    { [i \in 1..Cardinality(DueIds(tbl, now)) |->
          map_row_to_reminder(q[i], tbl[q[i]], now)] :
        q \in Ordered(tbl, DueIds(tbl, now)) }

\* mark_as_triggered that also retires the reminder
mark_as_triggered_retiring(tbl, id, now) ==
    [tbl EXCEPT ![id].last_triggered_at = Rfc3339(now),
                ![id].is_active = 0]

mark_as_triggered(tbl, id, now) ==
    [tbl EXCEPT ![id].last_triggered_at = Rfc3339(now)]

\* update_next_trigger_time that leaves updated_at as it was
update_next_trigger_time_silent(tbl, id, next_trigger, now) ==
    [tbl EXCEPT ![id].remind_at = Rfc3339(next_trigger)]

update_next_trigger_time(tbl, id, next_trigger, now) ==
    [tbl EXCEPT ![id].remind_at = Rfc3339(next_trigger),
                ![id].updated_at = Rfc3339(now)]

\* update clearing last_triggered_at when it moves remind_at
update_clearing(tbl, id, dto) ==
    [tbl EXCEPT
       ![id].title = IF dto.title.some THEN dto.title.v ELSE @,
       ![id].description = IF dto.description.some
                           THEN dto.description.v ELSE @,
       ![id].remind_at = IF dto.remind_at.some
                         THEN Rfc3339(dto.remind_at.v) ELSE @,
       ![id].repeat_interval = IF dto.repeat_interval.some
                               THEN dto.repeat_interval.v ELSE @,
       ![id].is_active = IF dto.is_active.some
                         THEN (IF dto.is_active.v THEN 1 ELSE 0) ELSE @,
       ![id].last_triggered_at = IF dto.remind_at.some THEN Null ELSE @]

\* ReminderRepository::update with the fields the dto carries
update(tbl, id, dto) ==
    [tbl EXCEPT
       ![id].title = IF dto.title.some THEN dto.title.v ELSE @,
       ![id].description = IF dto.description.some
                           THEN dto.description.v ELSE @,
       ![id].remind_at = IF dto.remind_at.some
                         THEN Rfc3339(dto.remind_at.v) ELSE @,
       ![id].repeat_interval = IF dto.repeat_interval.some
                               THEN dto.repeat_interval.v ELSE @,
       ![id].is_active = IF dto.is_active.some
                         THEN (IF dto.is_active.v THEN 1 ELSE 0) ELSE @]

deactivate(tbl, id) == [tbl EXCEPT ![id].is_active = 0]
activate(tbl, id) == [tbl EXCEPT ![id].is_active = 1]

\* ------------------------------------------------------------ TaskStatus
Statuses == {"pending", "in_progress", "completed", "cancelled"}

is_terminal(status) == status \in {"completed", "cancelled"}

\* can_transition_to letting a completed task be reopened
can_transition_to_reopening(status, new_status) ==
    CASE status = "completed" -> new_status = "pending"
      [] status = "cancelled" -> FALSE
      [] status = "pending" -> TRUE
      [] status = "in_progress" ->
            new_status \in {"completed", "cancelled", "pending"}

can_transition_to(status, new_status) ==
    CASE status \in {"completed", "cancelled"} -> FALSE
      [] status = "pending" -> TRUE
      [] status = "in_progress" ->
            new_status \in {"completed", "cancelled", "pending"}

is_modifiable(task) == ~is_terminal(task.status)

\* -------------------------------------------------------- TaskRepository
\* TaskRepository::create: a task starts pending, without completed_at
NewTask ==
    [title |-> "draft",
     status |-> "pending",
     due_date |-> Null,
     completed_at |-> Null,
     estimated_minutes |-> None,
     actual_minutes |-> None,
     created_at |-> Rfc3339(StartTime - PollSecs)]

\* TaskRepository::update: one SET per field the dto carries
TaskRepository_update(tbl, id, dto) ==
    [tbl EXCEPT
       ![id].title = IF dto.title.some THEN dto.title.v ELSE @,
       ![id].status = IF dto.status.some THEN dto.status.v ELSE @,
       ![id].due_date = IF dto.due_date.some
                        THEN Rfc3339(dto.due_date.v) ELSE @,
       ![id].estimated_minutes = IF dto.estimated_minutes.some
                                 THEN dto.estimated_minutes ELSE @,
       ![id].actual_minutes = IF dto.actual_minutes.some
                              THEN dto.actual_minutes ELSE @]

\* ------------------------------------------------------------ environment
\* outcomes a store call can have
StoreOutcomes == IF store_faulty THEN {TRUE, FALSE} ELSE {TRUE}
\* outcome of the notification sink
SinkOutcome == ~sink_fails

\* descriptors of the stored reminders when the application starts
AppDescriptors ==
    [id \in Ids |-> IF id = 1 THEN Descriptors ELSE {DescNone}]

LifeDescriptors ==
    [id \in Ids |->
        IF id = 1 THEN {<<"every", "1", "minutes">>} ELSE {DescNone}]

FaultyDescriptors ==
    [id \in Ids |->
        IF id = 1
        THEN {<<"after", "1", "hour">>, <<"every", "1", "minutes">>,
              <<"weekly">>}
        ELSE {DescNone}]

SvcDescriptors ==
    [id \in Ids |->
        IF id = 1 THEN {DescNone, <<"every", "1", "minutes">>} ELSE {DescNone}]

StepDescriptors ==
    [id \in Ids |->
        IF id = 1 THEN {<<"every", "1", "minutes">>} ELSE {DescNone}]

RepeatDescriptors ==
    [id \in Ids |->
        IF id = 1
        THEN {<<"every", "10", "minutes">>, <<"every", "1", "minutes">>,
              <<"every", "2", "minutes">>, <<"every", "30", "seconds">>}
        ELSE {DescNone}]

\* well-formed and malformed descriptors
ParseDescriptors ==
    [id \in Ids |->
        IF id = 1
        THEN {DescNone,
              <<"every", "1", "minutes">>,
              <<"every", "1", "month">>,
              <<"every", "1", "year">>,
              <<"after", "1", "hour">>,
              <<"foo", "1", "minutes">>,
              <<"every", "0", "minutes">>,
              <<"every", "-1", "minutes">>,
              <<"every", "1", "fortnight">>,
              <<"every", "x", "minutes">>,
              <<"every", "1">>,
              <<"weekly">>}
        ELSE {DescNone}]

\* descriptors with ordinary and with extreme values
OverflowDescriptors ==
    [id \in Ids |->
        IF id = 1
        THEN {<<"every", "1", "minutes">>,
              <<"every", "9223372036854775807", "seconds">>,
              <<"every", "9223372036854775807", "days">>,
              <<"every", "9223372036854775807", "months">>}
        ELSE {DescNone}]

\* a plain, a one-time and a repeating reminder for the snooze command
SnoozeDescriptors ==
    [id \in Ids |->
        IF id = 1
        THEN {DescNone, <<"after", "1", "hour">>,
              <<"every", "1", "minutes">>}
        ELSE {DescNone}]

InitRow(id, d) ==
    [task_id |-> IF id = 1 THEN Some(1) ELSE None,
     title |-> "call",
     description |-> Null,
     remind_at |-> Rfc3339(StartTime + (id - 1) * PollSecs),
     repeat_interval |-> d,
     is_active |-> 1,
     last_triggered_at |-> Null,
     created_at |-> Rfc3339(StartTime - PollSecs),
     updated_at |-> Rfc3339(StartTime - PollSecs)]

\* the store and the environment when the application starts
InitStore(InitDescriptors) ==
    /\ clock = StartTime
    /\ \E ds \in [Ids -> UNION {InitDescriptors[i] : i \in Ids}] :
          /\ \A id \in Ids : ds[id] \in InitDescriptors[id]
          /\ rows = [id \in Ids |-> InitRow(id, ds[id])]
    /\ batch = [t \in Threads |-> <<>>]
    /\ wake_at = [t \in Threads |-> StartTime]
    /\ db_lock = 0
    /\ fires = [id \in Ids |-> 0]
    /\ last_fire = [id \in Ids |-> None]
    /\ fg_ops = 0
    /\ must_exit = [t \in Threads |-> FALSE]
    /\ refused = FALSE
    /\ result = "none"
    /\ tasks = [id \in TaskIds |-> NoRow]
    /\ run_lock = 0

\* NotificationService::new: not running, no thread
InitLife ==
    /\ InitStore(LifeDescriptors)
    /\ store_faulty = FALSE
    /\ sink_fails = FALSE
    /\ is_running = FALSE
    /\ caller_pc = [c \in Callers |-> "idle"]
    /\ pc = [t \in Threads |-> "unborn"]
    /\ epoch_starts = 0

\* a service that was created and started once
Started ==
    /\ is_running = TRUE
    /\ caller_pc = [c \in Callers |-> "idle"]
    /\ pc = [t \in Threads |-> IF t = 1 THEN "check" ELSE "unborn"]
    /\ epoch_starts = 1

\* main(): the service is created and started once in setup
Init ==
    /\ InitStore(AppDescriptors)
    /\ store_faulty = FALSE
    /\ sink_fails = FALSE
    /\ Started

\* the same with a store whose calls may fail
InitFaulty ==
    /\ InitStore(FaultyDescriptors)
    /\ store_faulty = TRUE
    /\ sink_fails = FALSE
    /\ Started

\* services::NotificationService, started, with a sink that works or fails
InitSvc ==
    /\ InitStore(SvcDescriptors)
    /\ store_faulty = FALSE
    /\ sink_fails \in BOOLEAN
    /\ Started

\* the started scheduler over a store whose calls may fail
InitSteps ==
    /\ InitStore(StepDescriptors)
    /\ store_faulty = TRUE
    /\ sink_fails = FALSE
    /\ Started

\* the started scheduler over a store holding a repeating reminder
InitRepeat ==
    /\ InitStore(RepeatDescriptors)
    /\ store_faulty = FALSE
    /\ sink_fails = FALSE
    /\ Started

\* the started scheduler over a store holding any descriptor
InitParse ==
    /\ InitStore(ParseDescriptors)
    /\ store_faulty = FALSE
    /\ sink_fails = FALSE
    /\ Started

\* the started scheduler over a store holding extreme descriptors
InitOverflow ==
    /\ InitStore(OverflowDescriptors)
    /\ store_faulty = FALSE
    /\ sink_fails = FALSE
    /\ Started

\* a store with one reminder, pending or fired and switched off, and free
\* ids; the scheduler is not started
InitCommands ==
    /\ clock = StartTime
    /\ \E r \in {InitRow(1, DescNone),
                 [InitRow(1, <<"every", "1", "minutes">>) EXCEPT
                     !.last_triggered_at = Rfc3339(StartTime - PollSecs),
                     !.is_active = 0]} :
          rows = [id \in Ids |-> IF id = 1 THEN r ELSE NoRow]
    /\ batch = [t \in Threads |-> <<>>]
    /\ wake_at = [t \in Threads |-> StartTime]
    /\ db_lock = 0
    /\ fires = [id \in Ids |-> 0]
    /\ last_fire = [id \in Ids |-> None]
    /\ fg_ops = 0
    /\ must_exit = [t \in Threads |-> FALSE]
    /\ refused = FALSE
    /\ result = "none"
    /\ tasks = [id \in TaskIds |-> NoRow]
    /\ run_lock = 0
    /\ store_faulty = FALSE
    /\ sink_fails = FALSE
    /\ is_running = FALSE
    /\ caller_pc = [c \in Callers |-> "idle"]
    /\ pc = [t \in Threads |-> "unborn"]
    /\ epoch_starts = 0

\* a store of tasks as TaskRepository::create leaves them, and free ids;
\* the scheduler is not started
InitTasks ==
    /\ clock = StartTime
    /\ rows = [id \in Ids |-> InitRow(id, DescNone)]
    /\ tasks \in [TaskIds -> {NewTask, NoRow}]
    /\ tasks[1] = NewTask
    /\ run_lock = 0
    /\ batch = [t \in Threads |-> <<>>]
    /\ wake_at = [t \in Threads |-> StartTime]
    /\ db_lock = 0
    /\ fires = [id \in Ids |-> 0]
    /\ last_fire = [id \in Ids |-> None]
    /\ fg_ops = 0
    /\ must_exit = [t \in Threads |-> FALSE]
    /\ refused = FALSE
    /\ result = "none"
    /\ store_faulty = FALSE
    /\ sink_fails = FALSE
    /\ is_running = FALSE
    /\ caller_pc = [c \in Callers |-> "idle"]
    /\ pc = [t \in Threads |-> "unborn"]
    /\ epoch_starts = 0

\* the started scheduler over the reminders that will be snoozed
InitSnooze ==
    /\ InitStore(SnoozeDescriptors)
    /\ store_faulty = FALSE
    /\ sink_fails = FALSE
    /\ Started

Alive(t) == pc[t] \notin {"unborn", "done"}
Unborn == {t \in Threads : pc[t] = "unborn"}
PendingSpawns == {c \in Callers : caller_pc[c] = "spawn"}

\* the clock advances by one step; a batch under the database lock is
\* short against a clock step and sees one clock value
Tick ==
    /\ clock < MaxTime
    /\ db_lock = 0
    /\ clock' = clock + PollSecs
    /\ UNCHANGED <<rows, is_running, caller_pc, pc, batch, wake_at, db_lock,
                   store_faulty, sink_fails, fires, last_fire, fg_ops,
                   must_exit, epoch_starts, refused, result, tasks, run_lock>>

\* ---------------------------------------- notification::NotificationService
\* start() without the test of the flag
StartLock_untested(c) ==
    /\ caller_pc[c] = "idle"
    /\ run_lock = 0
    /\ Cardinality(Unborn) > Cardinality(PendingSpawns)
    /\ is_running' = TRUE
    /\ caller_pc' = [caller_pc EXCEPT ![c] = "spawn"]
    /\ epoch_starts' = epoch_starts + 1
    /\ refused' = (refused \/ is_running)
    /\ UNCHANGED <<clock, rows, pc, batch, wake_at, db_lock, store_faulty,
                   sink_fails, fires, last_fire, fg_ops, must_exit,
                   result, tasks, run_lock>>

\* start(), the section under the is_running lock
StartLock(c) ==
    /\ caller_pc[c] = "idle"
    /\ run_lock = 0
    /\ Cardinality(Unborn) > Cardinality(PendingSpawns)
    /\ IF is_running
       THEN /\ refused' = TRUE
            /\ UNCHANGED <<is_running, caller_pc, epoch_starts>>
       ELSE /\ is_running' = TRUE
            /\ caller_pc' = [caller_pc EXCEPT ![c] = "spawn"]
            /\ epoch_starts' = epoch_starts + 1
            /\ UNCHANGED refused
    /\ UNCHANGED <<clock, rows, pc, batch, wake_at, db_lock, store_faulty,
                   sink_fails, fires, last_fire, fg_ops, must_exit,
                   result, tasks, run_lock>>

\* start(), thread::spawn after the lock was dropped
StartSpawn(c) ==
    /\ caller_pc[c] = "spawn"
    /\ LET t == CHOOSE u \in Unborn : \A w \in Unborn : u <= w IN
          pc' = [pc EXCEPT ![t] = "check"]
    /\ caller_pc' = [caller_pc EXCEPT ![c] = "idle"]
    /\ UNCHANGED <<clock, rows, is_running, batch, wake_at, db_lock,
                   store_faulty, sink_fails, fires, last_fire, fg_ops,
                   must_exit, epoch_starts,
                   refused, result, tasks, run_lock>>

Stop(c) ==
    /\ caller_pc[c] = "idle"
    /\ run_lock = 0
    /\ is_running' = FALSE
    /\ must_exit' = [t \in Threads |-> must_exit[t] \/ Alive(t)]
    /\ epoch_starts' = 0
    /\ UNCHANGED <<clock, rows, caller_pc, pc, batch, wake_at, db_lock,
                   store_faulty, sink_fails, fires, last_fire, fg_ops,
                   refused, result, tasks, run_lock>>

\* the flag check keeping the guard of is_running into the cycle
LoopCheck_holding(t) ==
    /\ pc[t] = "check"
    /\ run_lock = 0
    /\ pc' = [pc EXCEPT ![t] = IF is_running THEN "poll" ELSE "done"]
    /\ run_lock' = IF is_running THEN t ELSE 0
    /\ UNCHANGED <<clock, rows, is_running, caller_pc, batch, wake_at,
                   db_lock, store_faulty, sink_fails, fires, last_fire,
                   fg_ops, must_exit, epoch_starts, refused, result, tasks>>

\* the top of the loop without the flag check
LoopCheck_unchecked(t) ==
    /\ pc[t] = "check"
    /\ run_lock = 0
    /\ pc' = [pc EXCEPT ![t] = "poll"]
    /\ UNCHANGED <<clock, rows, is_running, caller_pc, batch, wake_at,
                   db_lock, store_faulty, sink_fails, fires, last_fire,
                   fg_ops, must_exit, epoch_starts,
                   refused, result, tasks, run_lock>>

\* top of the loop: the flag check
LoopCheck(t) ==
    /\ pc[t] = "check"
    /\ run_lock = 0
    /\ pc' = [pc EXCEPT ![t] = IF is_running THEN "poll" ELSE "done"]
    /\ UNCHANGED <<clock, rows, is_running, caller_pc, batch, wake_at,
                   db_lock, store_faulty, sink_fails, fires, last_fire,
                   fg_ops, must_exit, epoch_starts,
                   refused, result, tasks, run_lock>>

\* db.lock() and repo.find_due_reminders()
Poll(t) ==
    /\ pc[t] = "poll"
    /\ db_lock = 0
    /\ db_lock' = t
    /\ pc' = [pc EXCEPT ![t] = "batch"]
    /\ \E ok \in StoreOutcomes :
          IF ok
          THEN \E due \in find_due_reminders(rows, clock) :
                  batch' = [batch EXCEPT ![t] = due]
          ELSE batch' = [batch EXCEPT ![t] = <<>>]
    /\ UNCHANGED <<clock, rows, is_running, caller_pc, wake_at, store_faulty,
                   sink_fails, fires, last_fire, fg_ops, must_exit,
                   epoch_starts,
                   refused, result, tasks, run_lock>>

\* whether the loop body calls update_next_trigger_time for the reminder
Reschedules(reminder) ==
    is_repeating(reminder.repeat_interval) /\ next_trigger_time(reminder).some

\* rows after the bookkeeping of one fired reminder
AfterFire(tbl, reminder, now, mark_ok, upd_ok) ==
    LET marked == IF mark_ok THEN mark_as_triggered(tbl, reminder.id, now)
                  ELSE tbl IN
    IF Reschedules(reminder) /\ upd_ok
    THEN update_next_trigger_time(marked, reminder.id,
                                  next_trigger_time(reminder).v, now)
    ELSE marked

\* one pass of the for loop over due_reminders
Process(t) ==
    /\ pc[t] = "batch"
    /\ db_lock = t
    /\ batch[t] # <<>>
    /\ LET reminder == Head(batch[t]) IN
       \E mark_ok \in StoreOutcomes, upd_ok \in StoreOutcomes :
          /\ Reschedules(reminder) \/ upd_ok
          /\ rows' = AfterFire(rows, reminder, clock, mark_ok, upd_ok)
          /\ fires' = [fires EXCEPT ![reminder.id] = @ + 1]
          /\ last_fire' = [last_fire EXCEPT ![reminder.id] =
                Some([at |-> clock, sent |-> SinkOutcome, mark |-> TRUE,
                      mark_ok |-> mark_ok,
                      resched |-> Reschedules(reminder),
                      event |-> Some(reminder)])]
    /\ batch' = [batch EXCEPT ![t] = Tail(@)]
    /\ UNCHANGED <<clock, is_running, caller_pc, pc, wake_at, db_lock,
                   store_faulty, sink_fails, fg_ops, must_exit, epoch_starts,
                   refused, result, tasks, run_lock>>

\* the end of a batch that keeps the database guard over the sleep
EndBatch_holding(t) ==
    /\ pc[t] = "batch"
    /\ db_lock = t
    /\ batch[t] = <<>>
    /\ pc' = [pc EXCEPT ![t] = "sleep"]
    /\ wake_at' = [wake_at EXCEPT ![t] = clock + PollSecs]
    /\ UNCHANGED <<clock, rows, is_running, caller_pc, batch, db_lock,
                   store_faulty, sink_fails, fires, last_fire, fg_ops,
                   must_exit, epoch_starts, refused, result, tasks,
                   run_lock>>

\* the batch is over: the database guard drops and the thread sleeps
EndBatch(t) ==
    /\ pc[t] = "batch"
    /\ db_lock = t
    /\ batch[t] = <<>>
    /\ db_lock' = 0
    /\ pc' = [pc EXCEPT ![t] = "sleep"]
    /\ wake_at' = [wake_at EXCEPT ![t] = clock + PollSecs]
    /\ UNCHANGED <<clock, rows, is_running, caller_pc, batch, store_faulty,
                   sink_fails, fires, last_fire, fg_ops, must_exit,
                   epoch_starts,
                   refused, result, tasks, run_lock>>

\* thread::sleep returns; the deadline is dead and goes back to its
\* initial value
Wake(t) ==
    /\ pc[t] = "sleep"
    /\ clock >= wake_at[t]
    /\ pc' = [pc EXCEPT ![t] = "check"]
    /\ wake_at' = [wake_at EXCEPT ![t] = StartTime]
    /\ UNCHANGED <<clock, rows, is_running, caller_pc, batch,
                   db_lock, store_faulty, sink_fails, fires, last_fire,
                   fg_ops, must_exit, epoch_starts,
                   refused, result, tasks, run_lock>>

\* ------------------------------------- the loop body, one call per step
\* db.lock() and repo.find_due_reminders(), the Ok and the Err arm
PollStep(t) ==
    /\ pc[t] = "poll"
    /\ db_lock = 0
    /\ db_lock' = t
    /\ \E ok \in StoreOutcomes :
          IF ok
          THEN /\ \E due \in find_due_reminders(rows, clock) :
                     batch' = [batch EXCEPT ![t] = due]
               /\ pc' = [pc EXCEPT ![t] = "batch"]
          ELSE /\ batch' = [batch EXCEPT ![t] = <<>>]
               /\ pc' = [pc EXCEPT ![t] = "failed"]
    /\ UNCHANGED <<clock, rows, is_running, caller_pc, wake_at, store_faulty,
                   sink_fails, fires, last_fire, fg_ops, must_exit,
                   epoch_starts, refused, result, tasks, run_lock>>

\* the Err arm polling again at once
FailSleep_retry(t) ==
    /\ pc[t] = "failed"
    /\ db_lock = t
    /\ db_lock' = 0
    /\ pc' = [pc EXCEPT ![t] = "poll"]
    /\ UNCHANGED <<clock, rows, is_running, caller_pc, batch, wake_at,
                   store_faulty, sink_fails, fires, last_fire, fg_ops,
                   must_exit, epoch_starts, refused, result, tasks, run_lock>>

\* the Err arm: the error is printed, the guard drops, the thread sleeps
FailSleep(t) ==
    /\ pc[t] = "failed"
    /\ db_lock = t
    /\ db_lock' = 0
    /\ pc' = [pc EXCEPT ![t] = "sleep"]
    /\ wake_at' = [wake_at EXCEPT ![t] = clock + PollSecs]
    /\ UNCHANGED <<clock, rows, is_running, caller_pc, batch, store_faulty,
                   sink_fails, fires, last_fire, fg_ops, must_exit,
                   epoch_starts, refused, result, tasks, run_lock>>

\* trigger_notification going straight to the reschedule
Dispatch_unmarked(t) ==
    /\ pc[t] = "batch"
    /\ db_lock = t
    /\ batch[t] # <<>>
    /\ LET reminder == Head(batch[t]) IN
          /\ fires' = [fires EXCEPT ![reminder.id] =
                          IF @ < MaxFires THEN @ + 1 ELSE @]
          /\ last_fire' = [last_fire EXCEPT ![reminder.id] =
                Some([at |-> clock, sent |-> SinkOutcome, mark |-> FALSE,
                      mark_ok |-> FALSE, resched |-> FALSE,
                      calls |-> <<"dispatch">>])]
    /\ pc' = [pc EXCEPT ![t] = "resched"]
    /\ UNCHANGED <<clock, rows, is_running, caller_pc, batch, wake_at,
                   db_lock, store_faulty, sink_fails, fg_ops, must_exit,
                   epoch_starts, refused, result, tasks, run_lock>>

\* Self::trigger_notification(&app_handle, &reminder); its result is dropped
Dispatch(t) ==
    /\ pc[t] = "batch"
    /\ db_lock = t
    /\ batch[t] # <<>>
    /\ LET reminder == Head(batch[t]) IN
          /\ fires' = [fires EXCEPT ![reminder.id] =
                          IF @ < MaxFires THEN @ + 1 ELSE @]
          /\ last_fire' = [last_fire EXCEPT ![reminder.id] =
                Some([at |-> clock, sent |-> SinkOutcome, mark |-> FALSE,
                      mark_ok |-> FALSE, resched |-> FALSE,
                      calls |-> <<"dispatch">>])]
    /\ pc' = [pc EXCEPT ![t] = "mark"]
    /\ UNCHANGED <<clock, rows, is_running, caller_pc, batch, wake_at,
                   db_lock, store_faulty, sink_fails, fg_ops, must_exit,
                   epoch_starts, refused, result, tasks, run_lock>>

\* repo.mark_as_triggered propagating its error out of the loop
Mark_abort(t) ==
    /\ pc[t] = "mark"
    /\ db_lock = t
    /\ LET reminder == Head(batch[t]) IN
       \E mark_ok \in StoreOutcomes :
          /\ rows' = IF mark_ok
                     THEN mark_as_triggered(rows, reminder.id, clock)
                     ELSE rows
          /\ last_fire' = [last_fire EXCEPT ![reminder.id] =
                Some([@.v EXCEPT !.mark = TRUE, !.mark_ok = mark_ok,
                                 !.calls = Append(@, "mark")])]
          /\ IF mark_ok
             THEN /\ pc' = [pc EXCEPT ![t] = "resched"]
                  /\ UNCHANGED batch
             ELSE /\ pc' = [pc EXCEPT ![t] = "batch"]
                  /\ batch' = [batch EXCEPT ![t] = <<>>]
    /\ UNCHANGED <<clock, is_running, caller_pc, wake_at, db_lock,
                   store_faulty, sink_fails, fires, fg_ops, must_exit,
                   epoch_starts, refused, result, tasks, run_lock>>

\* repo.mark_as_triggered(&reminder.id); an Err is printed
Mark(t) ==
    /\ pc[t] = "mark"
    /\ db_lock = t
    /\ LET reminder == Head(batch[t]) IN
       \E mark_ok \in StoreOutcomes :
          /\ rows' = IF mark_ok
                     THEN mark_as_triggered(rows, reminder.id, clock)
                     ELSE rows
          /\ last_fire' = [last_fire EXCEPT ![reminder.id] =
                Some([@.v EXCEPT !.mark = TRUE, !.mark_ok = mark_ok,
                                 !.calls = Append(@, "mark")])]
          /\ pc' = [pc EXCEPT ![t] = "resched"]
          /\ UNCHANGED batch
    /\ UNCHANGED <<clock, is_running, caller_pc, wake_at, db_lock,
                   store_faulty, sink_fails, fires, fg_ops, must_exit,
                   epoch_starts, refused, result, tasks, run_lock>>

\* the rescheduling of a repeating reminder; an Err is printed
Resched(t) ==
    /\ pc[t] = "resched"
    /\ db_lock = t
    /\ LET reminder == Head(batch[t]) IN
       IF Reschedules(reminder)
       THEN \E upd_ok \in StoreOutcomes :
               /\ rows' = IF upd_ok
                          THEN update_next_trigger_time(rows, reminder.id,
                                   next_trigger_time(reminder).v, clock)
                          ELSE rows
               /\ last_fire' = [last_fire EXCEPT ![reminder.id] =
                     Some([@.v EXCEPT !.resched = TRUE,
                                      !.calls = Append(@, "update")])]
       ELSE UNCHANGED <<rows, last_fire>>
    /\ batch' = [batch EXCEPT ![t] = Tail(@)]
    /\ pc' = [pc EXCEPT ![t] = "batch"]
    /\ UNCHANGED <<clock, is_running, caller_pc, wake_at, db_lock,
                   store_faulty, sink_fails, fires, fg_ops, must_exit,
                   epoch_starts, refused, result, tasks, run_lock>>

\* --------------------------- the loop body with the arithmetic's outcomes
\* the thread unwinds: its batch is lost and the database guard drops
Unwind(t) ==
    /\ pc' = [pc EXCEPT ![t] = "panicked"]
    /\ batch' = [batch EXCEPT ![t] = <<>>]
    /\ db_lock' = 0

\* db.lock() and repo.find_due_reminders(); is_due may panic on a row
PollChecked(t) ==
    /\ pc[t] = "poll"
    /\ db_lock = 0
    /\ LET cand == {id \in Ids : DueWhere(rows[id], clock)}
           outs(id) == is_due_outcomes(
                           map_row_to_reminder(id, rows[id], clock), clock)
       IN \/ /\ \E id \in cand : Panic \in outs(id)
             /\ Unwind(t)
          \/ /\ \A id \in cand : outs(id) # {Panic}
             /\ \E due \in find_due_reminders(rows, clock) :
                   batch' = [batch EXCEPT ![t] = due]
             /\ pc' = [pc EXCEPT ![t] = "batch"]
             /\ db_lock' = t
    /\ UNCHANGED <<clock, rows, is_running, caller_pc, wake_at, store_faulty,
                   sink_fails, fires, last_fire, fg_ops, must_exit,
                   epoch_starts, refused, result, tasks, run_lock>>

\* one pass of the for loop; next_trigger_time may panic after the mark
ProcessChecked(t) ==
    /\ pc[t] = "batch"
    /\ db_lock = t
    /\ batch[t] # <<>>
    /\ LET reminder == Head(batch[t])
           marked == mark_as_triggered(rows, reminder.id, clock)
           nexts == IF is_repeating(reminder.repeat_interval)
                    THEN next_trigger_time_outcomes(reminder)
                    ELSE {Value(None)}
       IN /\ fires' = [fires EXCEPT ![reminder.id] = @ + 1]
          /\ \E n \in nexts :
                /\ last_fire' = [last_fire EXCEPT ![reminder.id] =
                      Some([at |-> clock, sent |-> SinkOutcome,
                            mark |-> TRUE, mark_ok |-> TRUE,
                            resched |-> (~n.panic /\ n.v.some),
                            event |-> Some(reminder)])]
                /\ IF n.panic
                   THEN /\ rows' = marked
                        /\ Unwind(t)
                   ELSE /\ rows' = IF n.v.some
                                   THEN update_next_trigger_time(marked,
                                            reminder.id, n.v.v, clock)
                                   ELSE marked
                        /\ batch' = [batch EXCEPT ![t] = Tail(@)]
                        /\ UNCHANGED <<pc, db_lock>>
    /\ UNCHANGED <<clock, is_running, caller_pc, wake_at, store_faulty,
                   sink_fails, fg_ops, must_exit, epoch_starts, refused,
                   result, tasks, run_lock>>

\* ------------------------------------------ services::NotificationService
SvcLoopCheck(t) ==
    /\ pc[t] = "check"
    /\ run_lock = 0
    /\ pc' = [pc EXCEPT ![t] = IF is_running THEN "poll" ELSE "done"]
    /\ UNCHANGED <<clock, rows, is_running, caller_pc, batch, wake_at,
                   db_lock, store_faulty, sink_fails, fires, last_fire,
                   fg_ops, must_exit, epoch_starts, refused, result, tasks,
                   run_lock>>

\* check_and_notify up to the for loop
SvcPoll(t) ==
    /\ pc[t] = "poll"
    /\ db_lock = 0
    /\ db_lock' = t
    /\ pc' = [pc EXCEPT ![t] = "batch"]
    /\ \E ok \in StoreOutcomes :
          IF ok
          THEN \E due \in find_due_reminders(rows, clock) :
                  batch' = [batch EXCEPT ![t] = due]
          ELSE batch' = [batch EXCEPT ![t] = <<>>]
    /\ UNCHANGED <<clock, rows, is_running, caller_pc, wake_at, store_faulty,
                   sink_fails, fires, last_fire, fg_ops, must_exit,
                   epoch_starts, refused, result, tasks, run_lock>>

\* one pass of the for loop of check_and_notify
SvcProcess(t) ==
    /\ pc[t] = "batch"
    /\ db_lock = t
    /\ batch[t] # <<>>
    /\ LET reminder == Head(batch[t]) IN
       IF ~SinkOutcome
       THEN \* send_notification failed: continue
            /\ rows' = rows
            /\ last_fire' = [last_fire EXCEPT ![reminder.id] =
                  Some([at |-> clock, sent |-> FALSE, mark |-> FALSE,
                        mark_ok |-> FALSE, resched |-> FALSE,
                        event |-> None])]
            /\ fires' = [fires EXCEPT ![reminder.id] = @ + 1]
       ELSE \E mark_ok \in StoreOutcomes :
            /\ rows' = IF mark_ok
                       THEN mark_as_triggered(rows, reminder.id, clock)
                       ELSE rows
            /\ last_fire' = [last_fire EXCEPT ![reminder.id] =
                  Some([at |-> clock, sent |-> TRUE, mark |-> TRUE,
                        mark_ok |-> mark_ok, resched |-> FALSE,
                        event |-> Some(reminder)])]
            /\ fires' = [fires EXCEPT ![reminder.id] = @ + 1]
    /\ batch' = [batch EXCEPT ![t] = Tail(@)]
    /\ UNCHANGED <<clock, is_running, caller_pc, pc, wake_at, db_lock,
                   store_faulty, sink_fails, fg_ops, must_exit, epoch_starts,
                   refused, result, tasks, run_lock>>

\* check_and_notify returns, the database guard drops, the thread sleeps
SvcEndBatch(t) ==
    /\ pc[t] = "batch"
    /\ db_lock = t
    /\ batch[t] = <<>>
    /\ db_lock' = 0
    /\ pc' = [pc EXCEPT ![t] = "sleep"]
    /\ wake_at' = [wake_at EXCEPT ![t] = clock + SvcPollSecs]
    /\ UNCHANGED <<clock, rows, is_running, caller_pc, batch, store_faulty,
                   sink_fails, fires, last_fire, fg_ops, must_exit,
                   epoch_starts, refused, result, tasks, run_lock>>

\* thread::sleep returns; the deadline is dead and goes back to its
\* initial value
SvcWake(t) ==
    /\ pc[t] = "sleep"
    /\ clock >= wake_at[t]
    /\ pc' = [pc EXCEPT ![t] = "check"]
    /\ wake_at' = [wake_at EXCEPT ![t] = StartTime]
    /\ UNCHANGED <<clock, rows, is_running, caller_pc, batch,
                   db_lock, store_faulty, sink_fails, fires, last_fire,
                   fg_ops, must_exit, epoch_starts, refused, result, tasks,
                   run_lock>>

\* ------------------------------------------------------- ReminderService
NoDto ==
    [title |-> None, description |-> None, remind_at |-> None,
     repeat_interval |-> None, is_active |-> None]

UpdateDtos(now) ==
    { [NoDto EXCEPT !.remind_at = Some(now + PollSecs)],
      [NoDto EXCEPT !.repeat_interval = Some(<<"every", "1", "minutes">>)] }

SnoozeArgs == {Some(1)}

\* a command handler that runs on the store without the database lock
Foreground_unlocked(tbl) ==
    /\ fg_ops < MaxFgOps
    /\ fg_ops' = fg_ops + 1
    /\ rows' = tbl
    /\ UNCHANGED <<clock, is_running, caller_pc, pc, batch, wake_at, db_lock,
                   store_faulty, sink_fails, fires, last_fire, must_exit,
                   epoch_starts, refused, tasks, run_lock>>

\* a command handler: takes the database lock, runs, releases it
Foreground(tbl) ==
    /\ db_lock = 0
    /\ fg_ops < MaxFgOps
    /\ fg_ops' = fg_ops + 1
    /\ rows' = tbl
    /\ UNCHANGED <<clock, is_running, caller_pc, pc, batch, wake_at, db_lock,
                   store_faulty, sink_fails, fires, last_fire, must_exit,
                   epoch_starts, refused, tasks, run_lock>>

update_reminder(id, dto) ==
    IF rows[id] = NoRow
    THEN Foreground(rows) /\ result' = "not_found"
    ELSE IF dto.remind_at.some /\ dto.remind_at.v <= clock
    THEN Foreground(rows) /\ result' = "invalid"
    ELSE Foreground(update(rows, id, dto)) /\ result' = "ok"

\* snooze_reminder without is_active in its update
snooze_reminder_keeping(id, snooze_minutes) ==
    IF rows[id] = NoRow
    THEN Foreground(rows) /\ result' = "not_found"
    ELSE /\ Foreground(update(rows, id,
               [NoDto EXCEPT
                  !.remind_at = Some(clock + Minutes(IF snooze_minutes.some
                                         THEN snooze_minutes.v
                                         ELSE DefaultSnoozeMinutes))]))
         /\ result' = "ok"

snooze_reminder(id, snooze_minutes) ==
    IF rows[id] = NoRow
    THEN Foreground(rows) /\ result' = "not_found"
    ELSE /\ Foreground(update(rows, id,
               [NoDto EXCEPT
                  !.remind_at = Some(clock + Minutes(IF snooze_minutes.some
                                         THEN snooze_minutes.v
                                         ELSE DefaultSnoozeMinutes)),
                  !.is_active = Some(TRUE)]))
         /\ result' = "ok"

deactivate_reminder(id) == Foreground(deactivate(rows, id)) /\ result' = "ok"

activate_reminder(id) == Foreground(activate(rows, id)) /\ result' = "ok"

\* the title, the future remind_at and the descriptor of a create request
CreateDtos(now) ==
    [task_id : {None},
     title : {"", "call"},
     description : {None},
     remind_at : {now, now + 1, now + PollSecs},
     repeat_interval : {DescNone, <<"every", "1", "minutes">>}]

\* the time that may pass between two readings of the clock in one call
Elapsed == {0, 2}

\* ReminderService::create_reminder and ReminderRepository::create: the
\* service validates against one reading of the clock, the repository
\* stamps the row with a later one
create_reminder(id, dto, elapsed) ==
    /\ db_lock = 0
    /\ fg_ops < MaxFgOps
    /\ fg_ops' = fg_ops + 1
    /\ rows[id] = NoRow
    /\ IF dto.title = ""
       THEN /\ result' = "invalid"
            /\ UNCHANGED <<clock, rows>>
       ELSE IF dto.remind_at <= clock
       THEN /\ result' = "invalid"
            /\ UNCHANGED <<clock, rows>>
       ELSE /\ clock' = clock + elapsed
            /\ rows' = [rows EXCEPT ![id] =
                  [task_id |-> dto.task_id,
                   title |-> dto.title,
                   description |-> IF dto.description.some
                                   THEN dto.description.v ELSE Null,
                   remind_at |-> Rfc3339(dto.remind_at),
                   repeat_interval |-> dto.repeat_interval,
                   is_active |-> 1,
                   last_triggered_at |-> Null,
                   created_at |-> Rfc3339(clock'),
                   updated_at |-> Rfc3339(clock')]]
            /\ result' = "ok"
    /\ UNCHANGED <<is_running, caller_pc, pc, batch, wake_at, db_lock,
                   store_faulty, sink_fails, fires, last_fire, must_exit,
                   epoch_starts, refused, tasks, run_lock>>

\* ------------------------------------------------------------ TaskService
NoTaskDto ==
    [title |-> None, status |-> None, due_date |-> None,
     estimated_minutes |-> None, actual_minutes |-> None]

UpdateTaskDtos ==
    [title : {None, Some("")},
     status : {None} \cup {Some(st) : st \in Statuses},
     due_date : {None, Some(StartTime - Hours(1))},
     estimated_minutes : {None, Some(0)},
     actual_minutes : {None, Some(0), Some(5)}]

MarkDoneArgs == {None, Some(0), Some(5)}

\* a task command under the database lock: the table and the outcome
TaskCommand(tbl, outcome) ==
    /\ db_lock = 0
    /\ tasks' = tbl
    /\ result' = outcome
    /\ UNCHANGED <<clock, rows, is_running, caller_pc, pc, batch, wake_at,
                   db_lock, store_faulty, sink_fails, fires, last_fire,
                   fg_ops, must_exit, epoch_starts, refused, run_lock>>

update_task(id, dto) ==
    LET existing_task == tasks[id] IN
    IF existing_task = NoRow THEN TaskCommand(tasks, "not_found")
    ELSE IF ~is_modifiable(existing_task)
    THEN TaskCommand(tasks, "not_modifiable")
    ELSE IF dto.title.some /\ dto.title.v = ""
    THEN TaskCommand(tasks, "invalid")
    ELSE IF dto.status.some
            /\ ~can_transition_to(existing_task.status, dto.status.v)
    THEN TaskCommand(tasks, "invalid_transition")
    ELSE IF dto.due_date.some
            /\ dto.due_date.v < ParseRfc3339(existing_task.created_at).v
    THEN TaskCommand(tasks, "invalid")
    ELSE IF dto.estimated_minutes.some /\ dto.estimated_minutes.v <= 0
    THEN TaskCommand(tasks, "invalid")
    ELSE IF dto.actual_minutes.some /\ dto.actual_minutes.v <= 0
    THEN TaskCommand(tasks, "invalid")
    ELSE TaskCommand(TaskRepository_update(tasks, id, dto), "ok")

mark_done(id, actual_minutes) ==
    LET existing_task == tasks[id] IN
    IF existing_task = NoRow THEN TaskCommand(tasks, "not_found")
    ELSE IF existing_task.status = "completed"
    THEN TaskCommand(tasks, "ok")
    ELSE IF ~is_modifiable(existing_task)
    THEN TaskCommand(tasks, "not_modifiable")
    ELSE IF actual_minutes.some /\ actual_minutes.v <= 0
    THEN TaskCommand(tasks, "invalid")
    ELSE TaskCommand(
            TaskRepository_update(tasks, id,
                [NoTaskDto EXCEPT !.status = Some("completed"),
                                  !.actual_minutes = actual_minutes]),
            "ok")

transition_status(id, new_status) ==
    LET existing_task == tasks[id] IN
    IF existing_task = NoRow THEN TaskCommand(tasks, "not_found")
    ELSE IF ~can_transition_to(existing_task.status, new_status)
    THEN TaskCommand(tasks, "invalid_transition")
    ELSE TaskCommand(
            TaskRepository_update(tasks, id,
                [NoTaskDto EXCEPT !.status = Some(new_status)]),
            "ok")

\* ------------------------------------------------------- specifications
\* the application: one scheduler started by main, and the command handlers
Next ==
    \/ Tick
    \/ \E t \in Threads : LoopCheck(t)
    \/ \E t \in Threads : Poll(t)
    \/ \E t \in Threads : Process(t)
    \/ \E t \in Threads : EndBatch(t)
    \/ \E t \in Threads : Wake(t)
    \/ \E id \in Ids, dto \in UpdateDtos(clock) : update_reminder(id, dto)
    \/ \E id \in Ids, m \in SnoozeArgs : snooze_reminder(id, m)
    \/ \E id \in Ids : deactivate_reminder(id)
    \/ \E id \in Ids : activate_reminder(id)

Spec == Init /\ [][Next]_vars

\* the lifecycle of one NotificationService under any start() / stop() calls
NextLife ==
    \/ Tick
    \/ \E c \in Callers : StartLock(c)
    \/ \E c \in Callers : StartSpawn(c)
    \/ \E c \in Callers : Stop(c)
    \/ \E t \in Threads : LoopCheck(t)
    \/ \E t \in Threads : Poll(t)
    \/ \E t \in Threads : Process(t)
    \/ \E t \in Threads : EndBatch(t)
    \/ \E t \in Threads : Wake(t)

SpecLife == InitLife /\ [][NextLife]_vars

\* the scheduler alone
NextSched ==
    \/ Tick
    \/ \E t \in Threads : LoopCheck(t)
    \/ \E t \in Threads : Poll(t)
    \/ \E t \in Threads : Process(t)
    \/ \E t \in Threads : EndBatch(t)
    \/ \E t \in Threads : Wake(t)

\* the scheduler over a store whose calls may fail
SpecFaulty == InitFaulty /\ [][NextSched]_vars

\* the scheduler with time passing and the loop thread being scheduled
Fairness ==
    /\ WF_vars(Tick)
    /\ \A t \in Threads :
          /\ WF_vars(LoopCheck(t))
          /\ WF_vars(Poll(t))
          /\ WF_vars(Process(t))
          /\ WF_vars(EndBatch(t))
          /\ WF_vars(Wake(t))

SpecFair == Init /\ [][NextSched]_vars /\ Fairness

\* the scheduler of the services module
NextSvc ==
    \/ Tick
    \/ \E t \in Threads : SvcLoopCheck(t)
    \/ \E t \in Threads : SvcPoll(t)
    \/ \E t \in Threads : SvcProcess(t)
    \/ \E t \in Threads : SvcEndBatch(t)
    \/ \E t \in Threads : SvcWake(t)

SpecSvc == InitSvc /\ [][NextSvc]_vars

\* the scheduler over a faulty store, one call of the loop body per step
NextSteps ==
    \/ Tick
    \/ \E t \in Threads : LoopCheck(t)
    \/ \E t \in Threads : PollStep(t)
    \/ \E t \in Threads : FailSleep(t)
    \/ \E t \in Threads : Dispatch(t)
    \/ \E t \in Threads : Mark(t)
    \/ \E t \in Threads : Resched(t)
    \/ \E t \in Threads : EndBatch(t)
    \/ \E t \in Threads : Wake(t)

SpecSteps == InitSteps /\ [][NextSteps]_vars

FairSteps ==
    /\ WF_vars(Tick)
    /\ \A t \in Threads :
          /\ WF_vars(LoopCheck(t))
          /\ WF_vars(PollStep(t))
          /\ WF_vars(FailSleep(t))
          /\ WF_vars(Dispatch(t))
          /\ WF_vars(Mark(t))
          /\ WF_vars(Resched(t))
          /\ WF_vars(EndBatch(t))
          /\ WF_vars(Wake(t))

SpecStepsFair == InitSteps /\ [][NextSteps]_vars /\ FairSteps

\* the scheduler over a store holding a repeating reminder
SpecRepeat == InitRepeat /\ [][NextSched]_vars

\* the scheduler over a store holding any descriptor
SpecParse == InitParse /\ [][NextSched]_vars

\* the scheduler with the outcomes of its integer and time arithmetic
NextOverflow ==
    \/ Tick
    \/ \E t \in Threads : LoopCheck(t)
    \/ \E t \in Threads : PollChecked(t)
    \/ \E t \in Threads : ProcessChecked(t)
    \/ \E t \in Threads : EndBatch(t)
    \/ \E t \in Threads : Wake(t)

SpecOverflow == InitOverflow /\ [][NextOverflow]_vars

\* an optional number of minutes of a snooze request
CommandSnoozeArgs == {None, Some(1)}

\* the commands that create and postpone reminders, and the clock
NextCommands ==
    \/ Tick
    \/ \E id \in Ids : \E dto \in CreateDtos(clock) : \E e \in Elapsed :
          create_reminder(id, dto, e)
    \/ \E id \in Ids : \E m \in CommandSnoozeArgs : snooze_reminder(id, m)

SpecCommands == InitCommands /\ [][NextCommands]_vars

\* the task commands and the clock
NextTasks ==
    \/ \E id \in TaskIds : \E m \in MarkDoneArgs : mark_done(id, m)
    \/ \E id \in TaskIds : \E st \in Statuses : transition_status(id, st)
    \/ \E id \in TaskIds : \E dto \in UpdateTaskDtos : update_task(id, dto)

SpecTasks == InitTasks /\ [][NextTasks]_vars

\* the scheduler and a user who snoozes the first reminder
NextSnooze ==
    \/ NextSched
    \/ \E m \in SnoozeArgs : snooze_reminder(1, m)

\* a command handler blocked in db.lock() gets the lock when the poll
\* thread releases it, since the thread then sleeps for a poll interval
FairSnooze ==
    /\ Fairness
    /\ SF_vars(\E m \in SnoozeArgs : snooze_reminder(1, m))

SpecSnooze == InitSnooze /\ [][NextSnooze]_vars /\ FairSnooze

\* ------------------------------------------------------------- properties
Reminder(id) == map_row_to_reminder(id, rows[id], clock)
Fired(id) == rows[id].last_triggered_at # Null
Dispatched(id) == fires'[id] > fires[id]

\* C1: a reminder whose repeat_interval is "none" and whose
\* mark_as_triggered has succeeded is returned by no later
\* find_due_reminders call and is never dispatched again, whatever the
\* foreground commands do in between.
C1_NoneFiresOnce ==
    /\ [](\A id \in Ids :
            (rows[id].repeat_interval = DescNone /\ Fired(id))
                => id \notin DueIds(rows, clock))
    /\ [][\A id \in Ids :
            (rows[id].repeat_interval = DescNone /\ Fired(id))
                => ~Dispatched(id)]_vars

\* a fired "none" reminder that passes the store filter again after a
\* foreground command and is held back only by is_due
C1_Witness ==
    \E id \in Ids :
        /\ rows[id].repeat_interval = DescNone
        /\ Fired(id)
        /\ fires[id] = 1
        /\ fg_ops > 0
        /\ DueWhere(rows[id], clock)

IsAfter(id) ==
    /\ parse(rows[id].repeat_interval).some
    /\ parse(rows[id].repeat_interval).v.kind = "after"

\* the times at which a fired reminder is probed
ProbeTimes(last) ==
    {clock, last, last + Seconds(1), last + Hours(1), last + Days(365)}

\* C2 as stated: a reminder whose descriptor parses with kind "after" is
\* dispatched at most once over any execution.
C2_AfterAtMostOnce ==
    \A id \in Ids : IsAfter(id) => fires[id] <= 1

\* C2 amended: once mark_as_triggered has succeeded for a reminder of kind
\* "after", the scheduler never dispatches it again, should_repeat_now is
\* false at every later time, next_trigger_time is None, and no dispatch
\* of it calls update_next_trigger_time.
C2_AfterOnceMarked ==
    /\ [](\A id \in Ids :
            (IsAfter(id) /\ Fired(id)) =>
                /\ \A now \in ProbeTimes(Reminder(id).last_triggered_at.v) :
                      ~should_repeat_now(Reminder(id),
                                         Reminder(id).last_triggered_at.v, now)
                /\ ~next_trigger_time(Reminder(id)).some)
    /\ [][\A id \in Ids :
            IsAfter(id) =>
                /\ Fired(id) => ~Dispatched(id)
                /\ Dispatched(id) => ~last_fire'[id].v.resched]_vars

\* a fired "after" reminder that the store filter lets through again
C2_Witness ==
    \E id \in Ids :
        /\ IsAfter(id)
        /\ Fired(id)
        /\ fires[id] >= 1
        /\ DueWhere(rows[id], clock)

IsEvery(id) ==
    LET p == parse(rows[id].repeat_interval) IN
    /\ p.some
    /\ p.v.kind = "every"
    /\ p.v.value >= 1
    /\ DurationFor(p.v.unit, p.v.value).some

EveryDuration(id) ==
    LET p == parse(rows[id].repeat_interval) IN
    DurationFor(p.v.unit, p.v.value).v

\* C3: two consecutive dispatches of an active every_<v>_<unit> reminder
\* are separated by at least duration_for(unit, v).
C3_RepeatSpacing ==
    [][\A id \in Ids :
        (IsEvery(id) /\ Dispatched(id) /\ last_fire[id].some)
            => clock - last_fire[id].v.at >= EveryDuration(id)]_vars

\* an "every" reminder that was dispatched a second time
C3_Witness ==
    \E id \in Ids : IsEvery(id) /\ fires[id] = 2 /\ rows[id].is_active = 1

\* active, never fired, and remind_at has passed
NeverFiredDue(id) ==
    /\ rows[id].is_active = 1
    /\ ~Fired(id)
    /\ Reminder(id).remind_at <= clock

\* C4: an active reminder that never fired and whose remind_at has passed
\* is eventually dispatched and marked triggered, by one dispatch after
\* which it is not due any more.
C4_DueFires ==
    /\ \A id \in Ids :
          (NeverFiredDue(id) /\ clock + PollSecs <= MaxTime)
              ~> (Fired(id) /\ fires[id] >= 1)
    /\ [][\A id \in Ids :
            (NeverFiredDue(id) /\ Dispatched(id)) =>
                /\ fires'[id] = fires[id] + 1
                /\ Fired(id)'
                /\ id \notin DueIds(rows', clock')]_vars

\* a reminder that was due, never fired, and has now fired once
C4_Witness ==
    \E id \in Ids :
        /\ Fired(id)
        /\ fires[id] = 1
        /\ last_fire[id].v.mark_ok
        /\ Reminder(id).last_triggered_at.v = last_fire[id].v.at

\* C5: an active every_<v>_<unit> reminder keeps firing: a poll at a time
\* now with remind_at <= now that is at least duration_for(unit, v) and
\* more than 1 minute after the last trigger passes the store filter and
\* selects the reminder.
C5_EveryKeepsFiring ==
    \A id \in Ids :
        (/\ IsEvery(id)
         /\ rows[id].is_active = 1
         /\ Fired(id)
         /\ Reminder(id).remind_at <= clock
         /\ clock - Reminder(id).last_triggered_at.v
                > Minutes(CooldownMinutes)
         /\ clock - Reminder(id).last_triggered_at.v >= EveryDuration(id))
            => (DueWhere(rows[id], clock) /\ id \in DueIds(rows, clock))

\* C6: at most one poll-loop thread is alive at any time.
C6_OneLoopThread ==
    Cardinality({t \in Threads : Alive(t)}) <= 1

\* C7: a start() that finds the flag set spawns no thread and leaves the
\* flag set, and between two stop() calls exactly one start() call sets
\* the flag and spawns a thread.
C7_StartOnce ==
    /\ [](epoch_starts <= 1 /\ (is_running <=> epoch_starts = 1))
    /\ [][(is_running /\ is_running')
            => (PendingSpawns' \subseteq PendingSpawns)]_vars
    /\ [][(refused' /\ ~refused)
            => (is_running' /\ UNCHANGED <<pc, caller_pc>>)]_vars

\* a start() call was refused while the thread of the start() call that
\* set the flag is not yet spawned
C7_Witness ==
    /\ refused
    /\ is_running
    /\ PendingSpawns # {}

\* C8: a loop thread that was alive when stop() was called exits at its
\* next flag check.
C8_StopExits ==
    [][\A t \in Threads :
        (must_exit[t] /\ pc[t] = "check" /\ pc'[t] # "check")
            => pc'[t] = "done"]_vars

\* C9: every dispatch attempt of the scheduler is followed by a call of
\* mark_as_triggered, whether the dispatch succeeded or failed.
C9_MarkUnconditional ==
    [][\A id \in Ids : Dispatched(id) => last_fire'[id].v.mark]_vars

\* C10: with a sink that fails on every call, a non-repeating reminder is
\* attempted in at most one poll cycle.
C10_BrokenSinkOnce ==
    \A id \in Ids :
        (sink_fails /\ rows[id].repeat_interval = DescNone)
            => fires[id] <= 1

\* C11: for each reminder of a batch the calls are made in the order
\* dispatch, mark_as_triggered, update_next_trigger_time: the store's
\* last_triggered_at is written only after the dispatch and its remind_at
\* only after mark_as_triggered was attempted in the same cycle.
C11_CallOrder ==
    /\ [](\A id \in Ids :
            last_fire[id].some =>
                last_fire[id].v.calls \in
                    { <<"dispatch">>, <<"dispatch", "mark">>,
                      <<"dispatch", "mark", "update">> })
    /\ [][\A id \in Ids :
            /\ rows'[id].last_triggered_at # rows[id].last_triggered_at
                  => /\ last_fire[id].some
                     /\ last_fire[id].v.calls = <<"dispatch">>
                     /\ last_fire[id].v.at = clock
            /\ rows'[id].remind_at # rows[id].remind_at
                  => /\ last_fire[id].some
                     /\ last_fire[id].v.calls = <<"dispatch", "mark">>
                     /\ last_fire[id].v.at = clock]_vars

\* a reminder rescheduled after its mark_as_triggered was attempted and
\* failed
C11_Witness ==
    \E id \in Ids :
        /\ last_fire[id].some
        /\ last_fire[id].v.calls = <<"dispatch", "mark", "update">>
        /\ ~last_fire[id].v.mark_ok
        /\ rows[id].remind_at = Rfc3339(StartTime + Minutes(1))

\* C12: once the poll cycle that fired a non-repeating reminder has
\* completed, the stored is_active of the reminder is false (no foreground
\* command having touched the store).
C12_NoneDeactivated ==
    \A id \in Ids :
        (/\ rows[id].repeat_interval = DescNone
         /\ fires[id] >= 1
         /\ db_lock = 0
         /\ fg_ops = 0)
            => rows[id].is_active = 0

\* C13 (scenario A): a reminder with repeat_interval "every_10_minutes" and
\* remind_at = T that the scheduler fires at time T has afterwards
\* last_triggered_at = T and remind_at = T + 10 minutes, and is_due is
\* false at T + 5 minutes and true at T + 10 minutes.
C13_ScenarioA ==
    [][\A id \in Ids :
        (/\ rows[id].repeat_interval = <<"every", "10", "minutes">>
         /\ Dispatched(id)
         /\ Reminder(id).remind_at = clock)
            => LET T == clock
                   r == map_row_to_reminder(id, rows'[id], clock') IN
               /\ r.last_triggered_at = Some(T)
               /\ r.remind_at = T + Minutes(10)
               /\ ~is_due(r, T + Minutes(5))
               /\ is_due(r, T + Minutes(10))]_vars

\* the every_10_minutes reminder was fired once, at its remind_at
C13_Witness ==
    \E id \in Ids :
        /\ rows[id].repeat_interval = <<"every", "10", "minutes">>
        /\ fires[id] = 1
        /\ last_fire[id].v.at = StartTime + (id - 1) * PollSecs
        /\ last_fire[id].v.resched
        /\ rows[id].last_triggered_at = Rfc3339(last_fire[id].v.at)

\* the times at which is_due is probed around a new remind_at
RoundTripProbes(next) ==
    {next - Minutes(1), next - Seconds(1), next, next + Seconds(1),
     next + Minutes(1), next + Hours(1)}

\* C14 (round trip): when the scheduler fires an active every_<v>_<unit>
\* reminder and writes the new remind_at r', is_due(now) is true for every
\* now >= r' and false for every now < r'.
C14_RoundTrip ==
    [][\A id \in Ids :
        (/\ IsEvery(id)
         /\ Dispatched(id)
         /\ last_fire'[id].v.resched)
            => LET r == map_row_to_reminder(id, rows'[id], clock') IN
               \A now \in RoundTripProbes(r.remind_at) :
                   is_due(r, now) <=> (now >= r.remind_at)]_vars

\* C15: every fire of an every_<v>_<unit> reminder stores a remind_at that
\* is strictly greater than the one before the fire and later than the
\* fire time.
C15_RemindAtAdvances ==
    [][\A id \in Ids :
        (IsEvery(id) /\ Dispatched(id))
            => /\ Reminder(id)'.remind_at > Reminder(id).remind_at
               /\ Reminder(id)'.remind_at > clock]_vars

\* C16: a poll cycle whose find_due_reminders returns an error dispatches
\* nothing and writes nothing to the store; the thread stays alive, leaves
\* the is_running flag alone, goes to its sleep of one poll interval and
\* polls again afterwards.
C16_FindErrorSkipsCycle ==
    /\ [](\A t \in Threads : pc[t] = "failed" => batch[t] = <<>>)
    /\ [][\A t \in Threads :
            (pc[t] = "failed" \/ pc'[t] = "failed")
                => /\ UNCHANGED <<rows, fires, last_fire, is_running>>
                   /\ pc'[t] \in {"failed", "sleep"}
                   /\ (pc[t] = "failed" /\ pc'[t] = "sleep")
                         => wake_at'[t] = clock + PollSecs]_vars
    /\ \A t \in Threads :
          (pc[t] = "failed" /\ clock + PollSecs <= MaxTime)
              ~> (pc[t] = "poll")

\* a cycle went to sleep with a due reminder left undispatched
C16_Witness ==
    \E t \in Threads :
        /\ pc[t] = "sleep"
        /\ wake_at[t] = clock + PollSecs
        /\ DueIds(rows, clock) # {}
        /\ \A id \in Ids : fires[id] = 0

\* C17: a failure of mark_as_triggered or update_next_trigger_time for one
\* reminder of a batch does not end the batch: a reminder leaves the batch
\* only after it was dispatched and its mark_as_triggered was attempted in
\* this cycle, the thread never exits, and the cycle ends in the sleep of
\* the loop.
C17_BatchContinues ==
    /\ [](\A t \in Threads : pc[t] # "done")
    /\ [][\A t \in Threads :
            (pc[t] # "poll" /\ batch'[t] # batch[t])
                => /\ pc[t] = "resched"
                   /\ batch[t] # <<>>
                   /\ batch'[t] = Tail(batch[t])
                   /\ last_fire[Head(batch[t]).id].some
                   /\ last_fire[Head(batch[t]).id].v.at = clock
                   /\ last_fire[Head(batch[t]).id].v.mark]_vars
    /\ \A t \in Threads :
          (pc[t] \in {"batch", "mark", "resched"}) ~> (pc[t] = "sleep")

\* mark_as_triggered and update_next_trigger_time both failed for the
\* first reminder of a batch, and the second one was dispatched and
\* marked in the same cycle
C17_Witness ==
    /\ fires[1] = 1
    /\ last_fire[1].v.mark
    /\ ~last_fire[1].v.mark_ok
    /\ last_fire[1].v.resched
    /\ rows[1].remind_at = Rfc3339(StartTime)
    /\ fires[2] = 1
    /\ last_fire[2].v.at = last_fire[1].v.at
    /\ last_fire[2].v.mark
    /\ last_fire[2].v.mark_ok

CooldownProbes(last) ==
    {last, last + Seconds(1), last + PollSecs,
     last + Minutes(CooldownMinutes) - Seconds(1)}

\* C19 (cool-down): a reminder whose last_triggered_at is less than
\* 1 minute before now is not selected by find_due_reminders(now), whatever
\* its remind_at, is_active and repeat descriptor.
C19_Cooldown ==
    \A id \in Ids :
        Fired(id) =>
            \A now \in CooldownProbes(Reminder(id).last_triggered_at.v)
                          \cup {clock} :
                (now - Reminder(id).last_triggered_at.v
                     < Minutes(CooldownMinutes))
                    => /\ ~DueWhere(rows[id], now)
                       /\ id \notin DueIds(rows, now)

\* an active repeating reminder fired 30 seconds ago whose remind_at has
\* passed and that is_due accepts: only the cool-down holds it back
C19_Witness ==
    \E id \in Ids :
        /\ Fired(id)
        /\ rows[id].is_active = 1
        /\ clock - Reminder(id).last_triggered_at.v = PollSecs
        /\ Reminder(id).remind_at <= clock
        /\ is_due(Reminder(id), clock)

\* the two layers as stated: the coarse filter on elapsed time and is_due
StatedLayers(r, now) ==
    /\ r.is_active
    /\ r.remind_at <= now
    /\ \/ ~r.last_triggered_at.some
       \/ now - r.last_triggered_at.v >= Minutes(CooldownMinutes)
    /\ is_due(r, now)

\* C20: find_due_reminders(now) returns exactly the stored reminders that
\* are active, have remind_at <= now, never fired or fired at least
\* 1 minute before now, and satisfy is_due(now) (the instant exactly
\* 1 minute after a trigger is left aside).
C20_FindDueExact ==
    \A id \in Ids :
        (Fired(id) =>
            clock - Reminder(id).last_triggered_at.v
                # Minutes(CooldownMinutes))
            => (id \in DueIds(rows, clock)
                    <=> StatedLayers(Reminder(id), clock))

\* the grammar "none" | "<kind>_<value>_<unit>", kind every or after,
\* value a positive integer, unit a recognized one
RecognizedUnits ==
    {"seconds", "second", "minutes", "minute", "hours", "hour", "days",
     "day", "weeks", "week", "months", "month", "years", "year"}

MatchesGrammar(d) ==
    \/ d = DescNone
    \/ /\ Len(d) = 3
       /\ d[1] \in {"every", "after"}
       /\ ParseI64(d[2]).some
       /\ ParseI64(d[2]).v > 0
       /\ d[3] \in RecognizedUnits

\* the reminder of a row with the given activity and last trigger
Variant(id, active, last) ==
    [Reminder(id) EXCEPT !.is_active = active, !.last_triggered_at = last]

\* last triggers a reminder is evaluated with
LastProbes == {None, Some(StartTime - Hours(1)), Some(StartTime)}

\* times a reminder is evaluated at
NowProbes ==
    {clock, StartTime + Seconds(1), StartTime + Minutes(1),
     StartTime + Hours(1), StartTime + Days(400)}

\* C21: for every descriptor that does not match the grammar,
\* should_repeat_now is false at every time and next_trigger_time is None.
C21_MalformedInert ==
    \A id \in Ids :
        ~MatchesGrammar(rows[id].repeat_interval) =>
            \A last \in LastProbes, now \in NowProbes :
                LET r == Variant(id, TRUE, last) IN
                /\ last.some => ~should_repeat_now(r, last.v, now)
                /\ ~next_trigger_time(r).some

\* the descriptor of the row is not "none" and does not parse
Unparsed(id) ==
    /\ rows[id].repeat_interval # DescNone
    /\ ~parse(rows[id].repeat_interval).some

\* C22 as stated: a reminder whose descriptor is not "none" and does not
\* parse is dispatched at most once.
C22_UnparsedAtMostOnce ==
    \A id \in Ids : Unparsed(id) => fires[id] <= 1

\* C22 amended: for a reminder whose descriptor is not "none" and does not
\* parse, is_repeating is true, the scheduler never dispatches it again
\* once mark_as_triggered has succeeded for it, and no dispatch of it
\* calls update_next_trigger_time or changes its remind_at.
C22_UnparsedOnceMarked ==
    /\ [](\A id \in Ids :
            Unparsed(id) =>
                /\ is_repeating(rows[id].repeat_interval)
                /\ ~next_trigger_time(Reminder(id)).some
                /\ Fired(id) => id \notin DueIds(rows, clock))
    /\ [][\A id \in Ids :
            Unparsed(id) =>
                /\ Fired(id) => ~Dispatched(id)
                /\ Dispatched(id) => ~last_fire'[id].v.resched
                /\ rows'[id].remind_at = rows[id].remind_at]_vars

\* a fired "weekly" reminder that the store filter lets through again
C22_Witness ==
    \E id \in Ids :
        /\ Unparsed(id)
        /\ Fired(id)
        /\ fires[id] >= 1
        /\ DueWhere(rows[id], clock)

\* seconds in one unit, a month being 30 days and a year 365 days
StatedUnitSeconds(u) ==
    CASE u \in {"seconds", "second"} -> 1
      [] u \in {"minutes", "minute"} -> 60
      [] u \in {"hours", "hour"} -> 3600
      [] u \in {"days", "day"} -> 86400
      [] u \in {"weeks", "week"} -> 604800
      [] u \in {"months", "month"} -> 2592000
      [] u \in {"years", "year"} -> 31536000

\* the descriptor has three tokens, an integer value and a recognized unit
Evaluable(d) ==
    /\ Len(d) = 3
    /\ ParseI64(d[2]).some
    /\ d[3] \in RecognizedUnits

StatedDuration(d) == ParseI64(d[2]).v * StatedUnitSeconds(d[3])

\* the reference predicate of is_due
StatedIsDue(r, now) ==
    IF ~r.is_active THEN FALSE
    ELSE IF r.remind_at > now THEN FALSE
    ELSE IF r.repeat_interval = DescNone THEN ~r.last_triggered_at.some
    ELSE \/ ~r.last_triggered_at.some
         \/ /\ Evaluable(r.repeat_interval)
            /\ r.repeat_interval[1] = "every"
            /\ now - r.last_triggered_at.v >= StatedDuration(r.repeat_interval)

\* C23: is_due(now) equals the reference predicate for every reminder and
\* every now.
C23_IsDueReference ==
    \A id \in Ids, active \in BOOLEAN :
        \A last \in LastProbes \cup {Reminder(id).last_triggered_at},
           now \in NowProbes :
            is_due(Variant(id, active, last), now)
                <=> StatedIsDue(Variant(id, active, last), now)

\* the reference value of next_trigger_time
StatedNext(r) ==
    IF \/ ~r.is_active
       \/ r.repeat_interval = DescNone
       \/ ~Evaluable(r.repeat_interval)
       \/ r.repeat_interval[1] = "after"
    THEN None
    ELSE Some((IF r.last_triggered_at.some
               THEN r.last_triggered_at.v ELSE r.remind_at)
              + StatedDuration(r.repeat_interval))

\* C24: next_trigger_time is None for an inactive or non-repeating
\* reminder, for kind "after" and for a descriptor that does not parse or
\* has an unrecognized unit; otherwise it is base + duration, the base
\* being last_triggered_at if present and remind_at otherwise, a month
\* being 30 days and a year 365 days.
C24_NextTriggerReference ==
    /\ [](\A id \in Ids, active \in BOOLEAN :
            \A last \in LastProbes \cup {Reminder(id).last_triggered_at} :
                next_trigger_time(Variant(id, active, last))
                    = StatedNext(Variant(id, active, last)))
    /\ [][\A id \in Ids :
            (Dispatched(id) /\ last_fire'[id].v.resched)
                => Reminder(id)'.remind_at = StatedNext(Reminder(id)).v]_vars

\* a fired every_1_month reminder rescheduled 30 days after its remind_at
C24_Witness ==
    \E id \in Ids :
        /\ rows[id].repeat_interval = <<"every", "1", "month">>
        /\ fires[id] = 1
        /\ last_fire[id].v.resched
        /\ rows[id].remind_at
              = Rfc3339(StartTime + (id - 1) * PollSecs + Days(30))

\* C25: the scheduler and the command handlers use the store under the one
\* database mutex: the mutex is held by exactly the thread that is between
\* its find_due_reminders and the end of its batch, no command runs while
\* it is held, and the store changes only in a command or in the batch of
\* the holder.
C25_DbSerialized ==
    /\ [](\A t \in Threads : pc[t] = "batch" <=> db_lock = t)
    /\ [][fg_ops' # fg_ops
            => (db_lock = 0 /\ \A t \in Threads : pc[t] # "batch")]_vars
    /\ [][rows' # rows
            => \/ fg_ops' # fg_ops
               \/ \E t \in Threads :
                     /\ db_lock = t
                     /\ pc[t] = "batch"
                     /\ batch[t] # <<>>]_vars

\* a command has run and the scheduler is in the middle of a later batch
C25_Witness ==
    \E t \in Threads :
        /\ fg_ops > 0
        /\ db_lock = t
        /\ Len(batch[t]) = 1
        /\ \E id \in Ids : last_fire[id].some /\ last_fire[id].v.at = clock

\* C26: whatever the scheduler and the commands update, snooze, activate
\* and deactivate do, the last_triggered_at of a reminder never goes from
\* a value back to None and never decreases.
C26_LastTriggeredMonotonic ==
    [][\A id \in Ids :
        Fired(id) =>
            /\ Fired(id)'
            /\ LET before == ParseRfc3339(rows[id].last_triggered_at)
                   after == ParseRfc3339(rows'[id].last_triggered_at)
               IN after.some /\ after.v >= before.v]_vars

\* a reminder fired twice, with a command in between or after
C26_Witness ==
    \E id \in Ids :
        /\ fires[id] = 2
        /\ fg_ops > 0
        /\ Reminder(id).last_triggered_at = Some(last_fire[id].v.at)
        /\ last_fire[id].v.at > StartTime

\* C27: the "reminder-triggered" event of a fire carries the state of the
\* reminder after the fire: its last_triggered_at is the time of this
\* fire.
C27_EventCarriesNewState ==
    [][\A id \in Ids :
        Dispatched(id) =>
            /\ last_fire'[id].v.event.some
            /\ last_fire'[id].v.event.v.last_triggered_at = Some(clock)]_vars

\* C28: for every descriptor whose value parses as an integer, extreme
\* values included, the durations and times of should_repeat_now and
\* next_trigger_time are computed without overflow or panic: no poll of
\* the scheduler ends in a panic of its thread.
C28_EvaluationNeverPanics ==
    \A t \in Threads : pc[t] # "panicked"

\* C29: a reminder that create_reminder stores has remind_at >= created_at,
\* is active and was never triggered, whatever time passes between the
\* validation of remind_at and the insertion that stamps created_at.
C29_CreatedInFuture ==
    [][\A id \in Ids :
        (rows[id] = NoRow /\ rows'[id] # NoRow) =>
            LET r == map_row_to_reminder(id, rows'[id], clock') IN
            /\ r.remind_at >= r.created_at
            /\ r.is_active
            /\ ~r.last_triggered_at.some]_vars

Stored(id) == tasks[id] # NoRow

\* C31: a task whose status is completed or cancelled keeps that status
\* under update_task, transition_status and mark_done; a pending task can
\* be moved to every status, an in_progress task to pending, completed and
\* cancelled and to no other.
C31_TerminalAbsorbing ==
    /\ [][\A id \in TaskIds :
            (Stored(id) /\ is_terminal(tasks[id].status))
                => tasks'[id].status = tasks[id].status]_vars
    /\ [][\A id \in TaskIds : \A st \in Statuses :
            (Stored(id) /\ transition_status(id, st)) =>
                CASE tasks[id].status = "pending" ->
                        tasks'[id].status = st /\ result' = "ok"
                  [] tasks[id].status = "in_progress" ->
                        IF st \in {"pending", "completed", "cancelled"}
                        THEN tasks'[id].status = st /\ result' = "ok"
                        ELSE /\ tasks' = tasks
                             /\ result' = "invalid_transition"
                  [] OTHER -> tasks' = tasks]_vars

\* a command was refused on a task that had been started and then
\* cancelled
C31_Witness ==
    /\ Stored(1)
    /\ tasks[1].status = "cancelled"
    /\ result \in {"not_modifiable", "invalid_transition"}

\* C32: mark_done on a task that is not terminal sets its status to
\* completed and its completed_at, so every completed task has a
\* completed_at; on a completed task it changes nothing and returns the
\* task, on a cancelled task it returns an error and changes nothing.
C32_MarkDoneCompletes ==
    /\ [](\A id \in TaskIds :
            (Stored(id) /\ tasks[id].status = "completed")
                => tasks[id].completed_at # Null)
    /\ [][\A id \in TaskIds : \A m \in {None, Some(5)} :
            (Stored(id) /\ mark_done(id, m)) =>
                CASE tasks[id].status = "completed" ->
                        tasks' = tasks /\ result' = "ok"
                  [] tasks[id].status = "cancelled" ->
                        tasks' = tasks /\ result' = "not_modifiable"
                  [] OTHER ->
                        /\ result' = "ok"
                        /\ tasks'[id].status = "completed"
                        /\ tasks'[id].completed_at # Null]_vars

\* C33: while the service stays stopped, a poll thread runs at most the
\* one find_due_reminders query of a cycle whose flag check came before
\* the stop: a thread that is not about to query does not get to a query,
\* and a flag check made after the stop ends the thread, so it neither
\* queries nor dispatches.
C33_StopBoundsQueries ==
    [][\A t \in Threads :
        /\ (~is_running /\ ~is_running' /\ pc[t] # "poll")
              => pc'[t] # "poll"
        /\ (~is_running /\ pc[t] = "check") => pc'[t] \in {"check", "done"}
        /\ (~is_running /\ ~is_running' /\ pc[t] = "done")
              => /\ pc'[t] = "done"
                 /\ batch'[t] = <<>>
                 /\ db_lock' # t]_vars

\* after a stop a thread went through the batch of its last cycle, slept
\* and left the loop at its next flag check
C33_Witness ==
    /\ ~is_running
    /\ \E t \in Threads :
          /\ pc[t] = "done"
          /\ must_exit[t]
          /\ \E id \in Ids : last_fire[id].some

\* C34: a poll thread does not hold the lock of is_running while it
\* acquires or holds the database lock, and start() and stop() are never
\* blocked: a caller can take its next step whoever holds the database
\* lock (start() as long as a thread is left to spawn).
C34_NoLockOrderDeadlock ==
    /\ \A t \in Threads :
          (pc[t] \in {"poll", "batch"} \/ db_lock = t) => run_lock # t
    /\ \A c \in Callers :
          /\ caller_pc[c] = "idle" => ENABLED Stop(c)
          /\ caller_pc[c] = "spawn" => ENABLED StartSpawn(c)
          /\ (caller_pc[c] = "idle"
                /\ Cardinality(Unborn) > Cardinality(PendingSpawns))
                => ENABLED StartLock(c)

\* stop() has completed while a poll thread holds the database lock in a
\* batch that is not finished
C34_Witness ==
    /\ ~is_running
    /\ \E t \in Threads :
          /\ db_lock = t
          /\ pc[t] = "batch"
          /\ batch[t] # <<>>
          /\ must_exit[t]

\* C35: a sleeping poll thread holds neither the database lock nor the
\* lock of is_running; a held database lock is released, and a command
\* that waits for the database lock is served while the scheduler runs.
C35_LockFreeSleep ==
    /\ [](\A t \in Threads :
            pc[t] = "sleep" => (db_lock # t /\ run_lock # t))
    /\ \A t \in Threads : (db_lock = t) ~> (db_lock = 0)
    /\ (is_running /\ fg_ops = 0) ~> (fg_ops > 0)

\* the command was served after the poll thread had run a batch and gone
\* to sleep
C35_Witness ==
    /\ is_running
    /\ fg_ops > 0
    /\ result = "ok"
    /\ \E t \in Threads : pc[t] = "sleep" /\ wake_at[t] > clock
    /\ \E id \in Ids : last_fire[id].some

\* C36: after snooze_reminder has succeeded on a reminder, whatever its
\* repeat_interval and whether or not it has fired before, the running
\* scheduler dispatches it once the snoozed remind_at has passed: when
\* a poll cycle made at or after the snoozed remind_at has ended, the
\* reminder has been dispatched at or after that remind_at.
C36_SnoozedFires ==
    \A t \in Threads :
        (/\ fg_ops > 0
         /\ result = "ok"
         /\ is_running
         /\ pc[t] = "sleep"
         /\ wake_at[t] = clock + PollSecs
         /\ ParseRfc3339(rows[1].remind_at).v <= clock)
            => /\ last_fire[1].some
               /\ last_fire[1].v.at >= ParseRfc3339(rows[1].remind_at).v

\* the columns of a reminder row that a poll cycle may write
CycleColumns == {"last_triggered_at", "remind_at", "updated_at"}

\* the ids of the reminders in a batch
BatchIds(due) == { due[i].id : i \in 1..Len(due) }

\* C37: a step of a poll cycle changes only rows of reminders that the
\* cycle's find_due_reminders returned, and of those rows only
\* last_triggered_at, remind_at and updated_at; no row appears or
\* disappears.
C37_CycleFrame ==
    [][\A t \in Threads :
          (LoopCheck(t) \/ Poll(t) \/ Process(t) \/ EndBatch(t) \/ Wake(t))
             => \A id \in Ids :
                   /\ (rows[id] = NoRow) <=> (rows'[id] = NoRow)
                   /\ rows'[id] # rows[id] =>
                         /\ id \in BatchIds(batch[t])
                         /\ DOMAIN rows'[id] = DOMAIN rows[id]
                         /\ \A col \in DOMAIN rows[id] \ CycleColumns :
                               rows'[id][col] = rows[id][col]]_vars

\* a poll cycle has rescheduled a repeating reminder beside a row that a
\* command has changed
C37_Witness ==
    /\ fg_ops > 0
    /\ \E id \in Ids :
          /\ last_fire[id].some
          /\ last_fire[id].v.resched
          /\ rows[id].last_triggered_at # Null
          /\ rows[id].remind_at # InitRow(id, DescNone).remind_at
          /\ rows[id].updated_at # InitRow(id, DescNone).updated_at

\* the columns of a row other than the given ones are the same in two
\* tables, and so is every other row
SameBut(tbl, after, id, cols) ==
    /\ DOMAIN after[id] = DOMAIN tbl[id]
    /\ \A col \in DOMAIN tbl[id] \ cols : after[id][col] = tbl[id][col]
    /\ \A other \in Ids \ {id} : after[other] = tbl[other]

\* mark_as_triggered writes the current time into last_triggered_at only
MarkWritesOneColumn ==
    \A id \in Ids :
        rows[id] # NoRow =>
            LET after == mark_as_triggered(rows, id, clock) IN
            /\ ParseRfc3339(after[id].last_triggered_at) = Some(clock)
            /\ after[id].remind_at = rows[id].remind_at
            /\ after[id].is_active = rows[id].is_active
            /\ after[id].updated_at = rows[id].updated_at
            /\ SameBut(rows, after, id, {"last_triggered_at"})

\* update_next_trigger_time writes remind_at and updated_at only
UpdateWritesTwoColumns ==
    \A id \in Ids, next \in {clock, clock + Minutes(1)} :
        rows[id] # NoRow =>
            LET after == update_next_trigger_time(rows, id, next, clock) IN
            /\ ParseRfc3339(after[id].remind_at) = Some(next)
            /\ ParseRfc3339(after[id].updated_at) = Some(clock)
            /\ after[id].last_triggered_at = rows[id].last_triggered_at
            /\ after[id].is_active = rows[id].is_active
            /\ SameBut(rows, after, id, {"remind_at", "updated_at"})

\* the loop body writes remind_at or updated_at of the fired reminder only
\* when next_trigger_time() of the reminder is Some
UpdateOnlyWhenSome ==
    \A t \in Threads :
        Process(t) =>
            LET reminder == Head(batch[t]) IN
            (\/ rows'[reminder.id].remind_at # rows[reminder.id].remind_at
             \/ rows'[reminder.id].updated_at # rows[reminder.id].updated_at)
                => next_trigger_time(reminder).some

\* C38: mark_as_triggered(id) sets last_triggered_at of that reminder to
\* the current time and leaves remind_at, is_active and updated_at;
\* update_next_trigger_time(id, t) sets remind_at to t and updated_at to
\* the current time and leaves last_triggered_at and is_active; the poll
\* loop calls update_next_trigger_time only when next_trigger_time() is
\* Some.
C38_RepositoryWrites ==
    /\ [](MarkWritesOneColumn /\ UpdateWritesTwoColumns)
    /\ [][UpdateOnlyWhenSome]_vars

\* one reminder was marked and not rescheduled, another was marked and
\* rescheduled
C38_Witness ==
    \E id \in Ids, other \in Ids :
        /\ last_fire[id].some
        /\ ~last_fire[id].v.resched
        /\ rows[id].last_triggered_at = Rfc3339(last_fire[id].v.at)
        /\ rows[id].updated_at = InitRow(id, DescNone).updated_at
        /\ last_fire[other].some
        /\ last_fire[other].v.resched
        /\ rows[other].updated_at = Rfc3339(last_fire[other].v.at)

====
